---- MODULE Spec2Model ----
(***************************************************************************)
(* A model of hetio/hetnet.py: the metagraph (kinds, metaedges and their   *)
(* inverses, the metapath cache and enumeration), the instance graph       *)
(* (nodes, paired edges, masks) and the path helpers.                      *)
(*                                                                         *)
(* Objects whose identity the code can tell apart (MetaPath, Edge) live in *)
(* heaps, sequences indexed by the object's number; a reference is an      *)
(* index. A MetaNode, a MetaEdge and a Node are written to their           *)
(* dictionary at most once per key (the asserts of add_edge and add_node), *)
(* so the key stands for the object.                                       *)
(***************************************************************************)
EXTENDS Integers, Sequences, FiniteSets, TLC

VARIABLES metagraph, metapaths, returned, calls, graph, edges, path_self, path_others, result

vars == <<metagraph, metapaths, returned, calls, graph, edges, path_self, path_others, result>>

(***************************************************************************)
(* Bounds of the model and the inputs the operations are called with.      *)
(***************************************************************************)
MaxMetaEdges == 2
MaxLength == 2
MaxPathCalls == 2
MaxNodes == 2
MaxEdgeCalls == 2
MaxMasked == 1
MaxOthers == 2

Kinds == {"compound", "gene"}
UndeclaredKind == "DOID:2377"
EdgeKinds == {"target"}
Directions == {"forward", "backward", "both"}

\* The value of an attribute that was never assigned (no id, no reference),
\* and Python's None.
Unset == <<>>
None == 0

\* direction_to_inverse without the inversion.
direction_kept(direction) == direction

direction_to_inverse(direction) ==
    CASE direction = "forward" -> "backward"
      [] direction = "backward" -> "forward"
      [] direction = "both" -> "both"

\* The order a set is iterated in: some fixed order. What the model states
\* about an iteration's results does not depend on it.
SetToSeq(S) ==
    LET RECURSIVE Order(_)
        Order(T) == IF T = {} THEN <<>>
                    ELSE LET x == CHOOSE y \in T : TRUE IN <<x>> \o Order(T \ {x})
    IN Order(S)

\* What the last call was, with which arguments, how it ended and what it returned.
Outcome(op, args, outcome, value) ==
    [op |-> op, args |-> args, outcome |-> outcome, value |-> value]

(***************************************************************************)
(* MetaGraph: node_dict maps a kind to its MetaNode (its set of anchored   *)
(* metaedges), edge_dict maps a metaedge id to its MetaEdge, path_dict     *)
(* maps an edge tuple to a MetaPath object.                                *)
(***************************************************************************)
EmptyMetaGraph == [node_dict |-> <<>>, edge_dict |-> <<>>, path_dict |-> <<>>]

MetaNode(kind) == [identifier |-> kind, edges |-> {}]

MetaEdge(source, target, kind, direction) ==
    [source |-> source, target |-> target, kind |-> kind, direction |-> direction,
     inverse |-> Unset, inverted |-> Unset]

MetaEdgeGetId(metaedge) ==
    <<metaedge.source, metaedge.target, metaedge.kind, metaedge.direction>>

MetaGraphAddNode(mg, kind) ==
    [mg EXCEPT !.node_dict = (kind :> MetaNode(kind)) @@ mg.node_dict]

InverseId(edge_id) ==
    <<edge_id[2], edge_id[1], edge_id[3], direction_to_inverse(edge_id[4])>>

SelfInverse(edge_id) == edge_id[1] = edge_id[2] /\ edge_id[4] = "both"

\* add_edge, lines 227-230: the metaedge is stored and anchored at its source.
StoreMetaEdge(mg, edge_id, inverted) ==
    LET metaedge == [MetaEdge(edge_id[1], edge_id[2], edge_id[3], edge_id[4])
                        EXCEPT !.inverted = inverted]
    IN [mg EXCEPT !.edge_dict = (edge_id :> metaedge) @@ mg.edge_dict,
                  !.node_dict[edge_id[1]].edges = @ \cup {edge_id}]

LinkInverse(mg, edge_id, inverse_id) ==
    [mg EXCEPT !.edge_dict[edge_id].inverse = inverse_id]

\* The metagraph after add_edge(edge_id) and how the call ended.
MetaGraphAddEdge(mg, edge_id) ==
    IF edge_id \in DOMAIN mg.edge_dict
    THEN [mg |-> mg, outcome |-> "AssertionError"]
    ELSE IF edge_id[1] \notin DOMAIN mg.node_dict \/ edge_id[2] \notin DOMAIN mg.node_dict
    THEN [mg |-> mg, outcome |-> "KeyError"]
    ELSE LET stored == StoreMetaEdge(mg, edge_id, FALSE)
             inverse_id == InverseId(edge_id)
         IN IF SelfInverse(edge_id)
            THEN [mg |-> LinkInverse(stored, edge_id, edge_id), outcome |-> "ok"]
            ELSE IF inverse_id \in DOMAIN stored.edge_dict
            THEN [mg |-> stored, outcome |-> "AssertionError"]
            ELSE [mg |-> LinkInverse(LinkInverse(StoreMetaEdge(stored, inverse_id, TRUE),
                                                 edge_id, inverse_id),
                                     inverse_id, edge_id),
                  outcome |-> "ok"]

\* from_edge_tuples: the kinds of the tuples, then the tuples in order.
TupleKinds(metaedge_tuples) ==
    {metaedge_tuples[i][1] : i \in DOMAIN metaedge_tuples}
        \cup {metaedge_tuples[i][2] : i \in DOMAIN metaedge_tuples}

RECURSIVE AddNodes(_, _)
AddNodes(mg, kinds) ==
    IF Len(kinds) = 0 THEN mg
    ELSE AddNodes(MetaGraphAddNode(mg, Head(kinds)), Tail(kinds))

RECURSIVE AddEdges(_, _)
AddEdges(mg, metaedge_tuples) ==
    IF Len(metaedge_tuples) = 0 THEN mg
    ELSE AddEdges(MetaGraphAddEdge(mg, Head(metaedge_tuples)).mg, Tail(metaedge_tuples))

from_edge_tuples(metaedge_tuples) ==
    AddEdges(AddNodes(EmptyMetaGraph, SetToSeq(TupleKinds(metaedge_tuples))), metaedge_tuples)

MetaEdgeIds == Kinds \X Kinds \X EdgeKinds \X Directions

\* Number of add_edge calls that created a metaedge: one per non-inverted one.
Declared(mg) == {id \in DOMAIN mg.edge_dict : mg.edge_dict[id].inverted = FALSE}

(***************************************************************************)
(* Building a metagraph call by call.                                      *)
(***************************************************************************)
InitRest ==
    /\ metapaths = <<>>
    /\ returned = <<>>
    /\ calls = 0
    /\ graph = [node_dict |-> <<>>, edge_dict |-> <<>>]
    /\ edges = <<>>
    /\ path_self = <<>>
    /\ path_others = <<>>
    /\ result = Outcome("init", <<>>, "ok", <<>>)

InitMeta ==
    /\ metagraph = EmptyMetaGraph
    /\ InitRest

\* from_edge_tuples adds each kind once (node_kinds is a set).
MetaAddNode(kind) ==
    /\ kind \notin DOMAIN metagraph.node_dict
    /\ metagraph' = MetaGraphAddNode(metagraph, kind)
    /\ result' = Outcome("meta_add_node", <<kind>>, "ok", <<>>)
    /\ UNCHANGED <<metapaths, returned, calls, graph, edges, path_self, path_others>>

MetaAddEdge(edge_id) ==
    /\ Cardinality(Declared(metagraph)) < MaxMetaEdges
    /\ LET r == MetaGraphAddEdge(metagraph, edge_id)
       IN /\ metagraph' = r.mg
          /\ result' = Outcome("meta_add_edge", edge_id, r.outcome, <<>>)
    /\ UNCHANGED <<metapaths, returned, calls, graph, edges, path_self, path_others>>

NextMeta ==
    \/ \E kind \in Kinds : MetaAddNode(kind)
    \/ \E edge_id \in MetaEdgeIds : MetaAddEdge(edge_id)

SpecMeta == InitMeta /\ [][NextMeta]_vars

(***************************************************************************)
(* MetaPath objects and the metapath cache. A cache state is the path_dict *)
(* and the heap of MetaPath objects; ret is what the call returned.        *)
(***************************************************************************)
MetaPath(edge_tuple) == [edges |-> edge_tuple, inverse |-> Unset, sub |-> Unset]

\* BasePath.inverse_edges: each edge's inverse, in reverse order.
inverse_edges(mg, edge_tuple) ==
    [i \in 1..Len(edge_tuple) |->
        mg.edge_dict[edge_tuple[Len(edge_tuple) + 1 - i]].inverse]

\* BasePath.source and BasePath.target: the kind of the MetaNode.
PathSource(mg, edge_tuple) == mg.edge_dict[edge_tuple[1]].source
PathTarget(mg, edge_tuple) == mg.edge_dict[edge_tuple[Len(edge_tuple)]].target

\* get_metapath, lines 276-284: both objects are created and written to
\* path_dict, the inverse last, and linked to each other.
CreatePair(st, mg, edge_tuple) ==
    LET metapath == Len(st.heap) + 1
        inverse == Len(st.heap) + 2
        inv_edges == inverse_edges(mg, edge_tuple)
    IN [path_dict |-> (inv_edges :> inverse) @@ (edge_tuple :> metapath) @@ st.path_dict,
        heap |-> st.heap \o <<[MetaPath(edge_tuple) EXCEPT !.inverse = inverse],
                               [MetaPath(inv_edges) EXCEPT !.inverse = metapath]>>,
        ret |-> metapath]

\* body(value), the value computed once, as an assignment to a local does.
Local(value, body(_)) == CHOOSE r \in {body(x) : x \in {value}} : TRUE

RECURSIVE get_metapath(_, _, _)
get_metapath(st, mg, edge_tuple) ==
    IF edge_tuple \in DOMAIN st.path_dict
    THEN [st EXCEPT !.ret = st.path_dict[edge_tuple]]
    ELSE IF Len(edge_tuple) = 0
    THEN [st EXCEPT !.ret = None]
    ELSE Local(CreatePair(st, mg, edge_tuple), LAMBDA created :
         LET metapath == created.ret
             inverse == created.heap[metapath].inverse
             inv_edges == created.heap[inverse].edges
         IN IF Len(Tail(edge_tuple)) = 0
            THEN [created EXCEPT !.heap[metapath].sub = None,
                                 !.heap[inverse].sub = None]
            ELSE Local(get_metapath(created, mg, Tail(edge_tuple)), LAMBDA sub :
                 Local(get_metapath([sub EXCEPT !.heap[metapath].sub = sub.ret],
                                    mg, Tail(inv_edges)), LAMBDA inverse_sub :
                 [inverse_sub EXCEPT !.heap[inverse].sub = inverse_sub.ret,
                                     !.ret = metapath])))

\* A list of get_metapath calls in order: the cache after them and what each
\* returned.
RECURSIVE GetAll(_, _, _)
GetAll(st, mg, requests) ==
    IF Len(requests) = 0 THEN [st |-> st, refs |-> <<>>]
    ELSE Local(get_metapath(st, mg, Head(requests)), LAMBDA first :
         Local(GetAll(first, mg, Tail(requests)), LAMBDA rest :
         [st |-> rest.st, refs |-> <<first.ret>> \o rest.refs]))

RECURSIVE Flatten(_)
Flatten(seqs) == IF Len(seqs) = 0 THEN <<>> ELSE Head(seqs) \o Flatten(Tail(seqs))

\* extract_metapaths, lines 258-260: the tuples requested at one depth, every
\* previous metapath extended by every metaedge anchored at its target.
Extensions(st, mg, previous_metapaths) ==
    Flatten([i \in 1..Len(previous_metapaths) |->
        LET metapath == st.heap[previous_metapaths[i]]
            add_edges == SetToSeq(mg.node_dict[PathTarget(mg, metapath.edges)].edges)
        IN [j \in 1..Len(add_edges) |-> metapath.edges \o <<add_edges[j]>>]])

\* One round too many: range(1, max_length + 1).
DepthsInclusive(max_length) == max_length

\* The number of rounds of `for depth in range(1, max_length)`.
Depths(max_length) == max_length - 1

\* The loop of lines 256-263 with `depths` rounds left.
RECURSIVE ExtendLoop(_, _, _, _)
ExtendLoop(st, mg, previous_metapaths, depths) ==
    IF depths <= 0 THEN [st |-> st, refs |-> <<>>, requests |-> <<>>]
    ELSE Local(Extensions(st, mg, previous_metapaths), LAMBDA requests :
         Local(GetAll(st, mg, requests), LAMBDA current :
         Local(ExtendLoop(current.st, mg, current.refs, depths - 1), LAMBDA rest :
         [st |-> rest.st, refs |-> current.refs \o rest.refs,
          requests |-> requests \o rest.requests])))

\* Line 264: the metapaths whose target is the target MetaNode.
KeepTarget(st, mg, refs, target_kind) ==
    SelectSeq(refs, LAMBDA ref : PathTarget(mg, st.heap[ref].edges) = target_kind)

\* The cache after extract_metapaths, the list it returned, how it ended, and
\* the get_metapath calls it made (requests) with what they returned (refs).
extract_metapaths(st, mg, source_kind, target_kind, max_length) ==
    LET unchanged(outcome) ==
            [st |-> st, outcome |-> outcome, value |-> <<>>,
             requests |-> <<>>, refs |-> <<>>]
    IN IF source_kind \notin DOMAIN mg.node_dict \/ target_kind \notin DOMAIN mg.node_dict
       THEN unchanged("KeyError")
       ELSE IF max_length < 0 THEN unchanged("AssertionError")
       ELSE IF max_length = 0 THEN unchanged("ok")
       ELSE Local(SetToSeq(mg.node_dict[source_kind].edges), LAMBDA source_edges :
            Local([i \in 1..Len(source_edges) |-> <<source_edges[i]>>], LAMBDA requests :
            Local(GetAll(st, mg, requests), LAMBDA first :
            Local(ExtendLoop(first.st, mg, first.refs, Depths(max_length)), LAMBDA loop :
            [st |-> loop.st, outcome |-> "ok",
             value |-> KeepTarget(loop.st, mg, first.refs \o loop.refs, target_kind),
             requests |-> requests \o loop.requests,
             refs |-> first.refs \o loop.refs]))))

(***************************************************************************)
(* Path operations on a built metagraph. The metagraph is one that         *)
(* from_edge_tuples returns: the one of test_creation, or one with a       *)
(* directed metaedge and a metaedge from a kind to itself.                 *)
(***************************************************************************)
TestTuples ==
    << <<"compound", "disease", "indication", "both">>,
       <<"disease", "gene", "association", "both">>,
       <<"compound", "gene", "target", "both">> >>

LoopTuples ==
    << <<"gene", "gene", "interaction", "both">>,
       <<"compound", "gene", "target", "forward">> >>

BuiltMetaGraphs == {from_edge_tuples(TestTuples), from_edge_tuples(LoopTuples)}

\* The tuples over S of length 0..n.
TuplesOver(S, n) == UNION {[1..k -> S] : k \in 0..n}

Cache == [path_dict |-> metagraph.path_dict, heap |-> metapaths, ret |-> None]

\* Every get_metapath call's return value, by the tuple it was called with.
RECURSIVE Record(_, _, _)
Record(log, requests, refs) ==
    IF Len(requests) = 0 THEN log
    ELSE LET t == Head(requests)
             before == IF t \in DOMAIN log THEN log[t] ELSE {}
         IN Record((t :> (before \cup {Head(refs)})) @@ log, Tail(requests), Tail(refs))

InitPaths ==
    /\ metagraph \in BuiltMetaGraphs
    /\ InitRest

GetMetapath(edge_tuple) ==
    /\ calls < MaxPathCalls
    /\ \E r \in {get_metapath(Cache, metagraph, edge_tuple)} :
          /\ metagraph' = [metagraph EXCEPT !.path_dict = r.path_dict]
          /\ metapaths' = r.heap
          /\ returned' = Record(returned, <<edge_tuple>>, <<r.ret>>)
          /\ result' = Outcome("get_metapath", edge_tuple, "ok", <<r.ret>>)
    /\ calls' = calls + 1
    /\ UNCHANGED <<graph, edges, path_self, path_others>>

ExtractMetapaths(source_kind, target_kind, max_length) ==
    /\ calls < MaxPathCalls
    /\ \E r \in {extract_metapaths(Cache, metagraph, source_kind, target_kind,
                                   max_length)} :
          /\ metagraph' = [metagraph EXCEPT !.path_dict = r.st.path_dict]
          /\ metapaths' = r.st.heap
          /\ returned' = Record(returned, r.requests, r.refs)
          /\ result' = Outcome("extract_metapaths", <<source_kind, target_kind, max_length>>,
                               r.outcome, r.value)
    /\ calls' = calls + 1
    /\ UNCHANGED <<graph, edges, path_self, path_others>>

ExtractInputs == (DOMAIN metagraph.node_dict \cup {UndeclaredKind})

NextPaths ==
    \/ \E edge_tuple \in TuplesOver(DOMAIN metagraph.edge_dict, MaxLength) :
          GetMetapath(edge_tuple)
    \/ \E source_kind \in ExtractInputs, target_kind \in ExtractInputs,
          max_length \in -1..MaxLength :
          ExtractMetapaths(source_kind, target_kind, max_length)

SpecPaths == InitPaths /\ [][NextPaths]_vars

NextExtract ==
    \E source_kind \in ExtractInputs, target_kind \in ExtractInputs,
       max_length \in -1..MaxLength :
       ExtractMetapaths(source_kind, target_kind, max_length)

SpecExtract == InitPaths /\ [][NextExtract]_vars

(***************************************************************************)
(* Graph: node_dict maps a node id (kind, identifier) to its Node,         *)
(* edge_dict maps an edge id to an Edge object of the heap `edges`. A      *)
(* Node's edges maps each metaedge anchored at its kind to a set of Edge   *)
(* objects (BaseEdge defines __hash__ and no __eq__: members are compared  *)
(* by identity). The name and data arguments are stored and never read.    *)
(***************************************************************************)
EmptyGraph == [node_dict |-> <<>>, edge_dict |-> <<>>]

Node(mg, kind, identifier) ==
    [metanode |-> kind, identifier |-> identifier, masked |-> FALSE,
     edges |-> [metaedge \in mg.node_dict[kind].edges |-> {}]]

NodeGetId(node) == <<node.metanode, node.identifier>>

\* Contains with the membership test lost.
ContainsNever(g, node_id) == FALSE

\* `node_id in self`
Contains(g, node_id) == node_id \in DOMAIN g.node_dict

\* The graph after add_node(kind, identifier) and how the call ended.
GraphAddNode(g, mg, kind, identifier) ==
    IF kind \notin DOMAIN mg.node_dict
    THEN [g |-> g, outcome |-> "KeyError"]
    ELSE LET node == Node(mg, kind, identifier)
             node_id == NodeGetId(node)
         IN IF Contains(g, node_id)
            THEN [g |-> g, outcome |-> "AssertionError"]
            ELSE [g |-> [g EXCEPT !.node_dict = (node_id :> node) @@ g.node_dict],
                  outcome |-> "ok"]

Edge(source, target, metaedge) ==
    [source |-> source, target |-> target, metaedge |-> metaedge,
     inverse |-> Unset, inverted |-> Unset, masked |-> FALSE]

EdgeGetId(mg, edge) ==
    <<edge.source, edge.target, mg.edge_dict[edge.metaedge].kind,
      mg.edge_dict[edge.metaedge].direction>>

\* Register without the insertion.
RegisterNowhere(g, edge, ref) == g

\* Edge.__init__, line 467: the new edge joins its source's set for its metaedge.
Register(g, edge, ref) ==
    [g EXCEPT !.node_dict[edge.source].edges[edge.metaedge] = @ \cup {ref}]

\* The graph and the heap after add_edge, how the call ended and the pair
\* it returned.
GraphAddEdge(g, heap, mg, source_id, target_id, kind, direction) ==
    LET failed == [g |-> g, heap |-> heap, outcome |-> "KeyError", value |-> <<>>]
    IN IF source_id \notin DOMAIN g.node_dict \/ target_id \notin DOMAIN g.node_dict
       THEN failed
       ELSE LET metaedge_id == <<g.node_dict[source_id].metanode,
                                 g.node_dict[target_id].metanode, kind, direction>>
            IN IF metaedge_id \notin DOMAIN mg.edge_dict
               THEN failed
               ELSE LET metaedge == mg.edge_dict[metaedge_id]
                        edge == Len(heap) + 1
                        inverse == Len(heap) + 2
                        new_edge == [Edge(source_id, target_id, metaedge_id) EXCEPT
                                        !.inverted = metaedge.inverted,
                                        !.inverse = inverse]
                        new_inverse == [Edge(target_id, source_id, metaedge.inverse) EXCEPT
                                        !.inverted = ~new_edge.inverted,
                                        !.inverse = edge]
                        g1 == Register(g, new_edge, edge)
                        g2 == [g1 EXCEPT !.edge_dict =
                                  (EdgeGetId(mg, new_edge) :> edge) @@ g1.edge_dict]
                        g3 == Register(g2, new_inverse, inverse)
                        g4 == [g3 EXCEPT !.edge_dict =
                                  (EdgeGetId(mg, new_inverse) :> inverse) @@ g3.edge_dict]
                    IN [g |-> g4, heap |-> heap \o <<new_edge, new_inverse>>,
                        outcome |-> "ok", value |-> <<edge, inverse>>]

\* BaseGraph.get_edges: the objects edge_dict holds, without the inverted ones.
GraphGetEdges(g, heap, exclude_inverts) ==
    {g.edge_dict[id] : id \in {i \in DOMAIN g.edge_dict :
        ~(exclude_inverts /\ heap[g.edge_dict[i]].inverted)}}

MetaGraphGetEdges(mg, exclude_inverts) ==
    {id \in DOMAIN mg.edge_dict : ~(exclude_inverts /\ mg.edge_dict[id].inverted)}

\* Node.get_edges
NodeGetEdges(g, heap, node_id, metaedge, exclude_masked) ==
    IF exclude_masked
    THEN {ref \in g.node_dict[node_id].edges[metaedge] :
            ~(heap[ref].masked \/ g.node_dict[heap[ref].target].masked)}
    ELSE g.node_dict[node_id].edges[metaedge]

\* ElemMask.mask and ElemMask.unmask: the element with its flag set or cleared.
ElemMaskSet(elem, masked) == [elem EXCEPT !.masked = masked]

\* Graph.unmask: every value of node_dict and of edge_dict.
GraphUnmask(g) ==
    [g EXCEPT !.node_dict = [id \in DOMAIN g.node_dict |->
                                [g.node_dict[id] EXCEPT !.masked = FALSE]]]

HeapUnmask(g, heap) ==
    [ref \in DOMAIN heap |->
        IF \E id \in DOMAIN g.edge_dict : g.edge_dict[id] = ref
        THEN [heap[ref] EXCEPT !.masked = FALSE] ELSE heap[ref]]

\* BasePath.mask_elem_iter: each edge and its source, then the path's target
\* (self[-1], an IndexError on an empty path).
EdgeElems(heap, path) ==
    [i \in 1..(2 * Len(path)) |->
        IF i % 2 = 1 THEN <<"edge", path[(i + 1) \div 2]>>
        ELSE <<"node", heap[path[i \div 2]].source>>]

\* mask_elem_iter without the final target.
mask_elem_iter_no_target(heap, path) == EdgeElems(heap, path)

mask_elem_iter(heap, path) ==
    EdgeElems(heap, path) \o << <<"node", heap[path[Len(path)]].target>> >>

ElemIsMasked(g, heap, elem) ==
    IF elem[1] = "edge" THEN heap[elem[2]].masked ELSE g.node_dict[elem[2]].masked

\* IterMask.is_masked: "True", "False", or the exception it raised.
is_masked(g, heap, path) ==
    IF Len(path) = 0 THEN "IndexError"
    ELSE LET elems == mask_elem_iter(heap, path)
         IN IF \E i \in DOMAIN elems : ElemIsMasked(g, heap, elems[i])
            THEN "True" ELSE "False"

(***************************************************************************)
(* An instance graph over a built metagraph.                               *)
(***************************************************************************)
GraphMetaGraph == from_edge_tuples(LoopTuples)

NodeIds == {<<"gene", 1>>, <<"gene", 2>>, <<"compound", 1>>}
GraphEdgeKinds == {GraphMetaGraph.edge_dict[id].kind : id \in DOMAIN GraphMetaGraph.edge_dict}

MaskedCount ==
    Cardinality({id \in DOMAIN graph.node_dict : graph.node_dict[id].masked})
        + Cardinality({ref \in DOMAIN edges : edges[ref].masked})

InitGraph ==
    /\ metagraph = GraphMetaGraph
    /\ InitRest

AddNode(kind, identifier) ==
    /\ Cardinality(DOMAIN graph.node_dict) < MaxNodes
    /\ LET r == GraphAddNode(graph, metagraph, kind, identifier)
       IN /\ graph' = r.g
          /\ result' = Outcome("add_node", <<kind, identifier>>, r.outcome, <<>>)
    /\ UNCHANGED <<metagraph, metapaths, returned, calls, edges, path_self, path_others>>

AddEdge(source_id, target_id, kind, direction) ==
    /\ Len(edges) < 2 * MaxEdgeCalls
    /\ LET r == GraphAddEdge(graph, edges, metagraph, source_id, target_id, kind, direction)
       IN /\ graph' = r.g
          /\ edges' = r.heap
          /\ result' = Outcome("add_edge", <<>>, r.outcome, r.value)
    /\ UNCHANGED <<metagraph, metapaths, returned, calls, path_self, path_others>>

\* mask() and unmask() of a node.
MaskNode(node_id, masked) ==
    /\ node_id \in DOMAIN graph.node_dict
    /\ graph' = [graph EXCEPT !.node_dict[node_id] = ElemMaskSet(@, masked)]
    /\ result' = Outcome(IF masked THEN "mask" ELSE "unmask", <<>>, "ok", <<>>)
    /\ UNCHANGED <<metagraph, metapaths, returned, calls, edges, path_self, path_others>>

\* mask() and unmask() of an edge.
MaskEdge(ref, masked) ==
    /\ ref \in DOMAIN edges
    /\ edges' = [edges EXCEPT ![ref] = ElemMaskSet(@, masked)]
    /\ result' = Outcome(IF masked THEN "mask" ELSE "unmask", <<>>, "ok", <<>>)
    /\ UNCHANGED <<metagraph, metapaths, returned, calls, graph, path_self, path_others>>

\* The same calls while the graph is being built, at most MaxMasked elements
\* masked at a time.
SetNodeMask(node_id, masked) ==
    /\ masked => MaskedCount < MaxMasked
    /\ MaskNode(node_id, masked)

SetEdgeMask(ref, masked) ==
    /\ masked => MaskedCount < MaxMasked
    /\ MaskEdge(ref, masked)

Unmask ==
    /\ graph' = GraphUnmask(graph)
    /\ edges' = HeapUnmask(graph, edges)
    /\ result' = Outcome("graph_unmask", <<>>, "ok", <<>>)
    /\ UNCHANGED <<metagraph, metapaths, returned, calls, path_self, path_others>>

NextGraph ==
    \/ \E node_id \in NodeIds \cup {<<UndeclaredKind, 1>>} : AddNode(node_id[1], node_id[2])
    \/ \E source_id \in NodeIds, target_id \in NodeIds,
          kind \in GraphEdgeKinds, direction \in Directions :
          AddEdge(source_id, target_id, kind, direction)
    \/ \E node_id \in NodeIds, masked \in BOOLEAN : SetNodeMask(node_id, masked)
    \/ \E ref \in 1..(2 * MaxEdgeCalls), masked \in BOOLEAN : SetEdgeMask(ref, masked)
    \/ Unmask

SpecGraph == InitGraph /\ [][NextGraph]_vars

(***************************************************************************)
(* Masking in a graph that was built: three nodes, an edge from a node to  *)
(* itself, and an edge between two nodes added twice.                      *)
(***************************************************************************)
RECURSIVE BuildNodes(_, _, _)
BuildNodes(g, mg, node_ids) ==
    IF Len(node_ids) = 0 THEN g
    ELSE BuildNodes(GraphAddNode(g, mg, Head(node_ids)[1], Head(node_ids)[2]).g,
                    mg, Tail(node_ids))

RECURSIVE BuildEdges(_, _, _)
BuildEdges(st, mg, edge_calls) ==
    IF Len(edge_calls) = 0 THEN st
    ELSE LET c == Head(edge_calls)
             r == GraphAddEdge(st.g, st.heap, mg, c[1], c[2], c[3], c[4])
         IN BuildEdges([g |-> r.g, heap |-> r.heap], mg, Tail(edge_calls))

BuiltGraph ==
    BuildEdges([g |-> BuildNodes(EmptyGraph, GraphMetaGraph,
                                 << <<"gene", 1>>, <<"gene", 2>>, <<"compound", 1>> >>),
                heap |-> <<>>],
               GraphMetaGraph,
               << << <<"gene", 1>>, <<"gene", 1>>, "interaction", "both" >>,
                  << <<"compound", 1>>, <<"gene", 2>>, "target", "forward" >>,
                  << <<"compound", 1>>, <<"gene", 2>>, "target", "forward" >> >>)

InitMask ==
    /\ metagraph = GraphMetaGraph
    /\ metapaths = <<>>
    /\ returned = <<>>
    /\ calls = 0
    /\ graph = BuiltGraph.g
    /\ edges = BuiltGraph.heap
    /\ path_self = <<>>
    /\ path_others = <<>>
    /\ result = Outcome("init", <<>>, "ok", <<>>)

NextMask ==
    \/ \E node_id \in NodeIds, masked \in BOOLEAN : MaskNode(node_id, masked)
    \/ \E ref \in DOMAIN edges, masked \in BOOLEAN : MaskEdge(ref, masked)
    \/ Unmask

SpecMask == InitMask /\ [][NextMask]_vars

(***************************************************************************)
(* BasePath.max_overlap. A candidate is a Path object or, as nothing       *)
(* checks the argument, a plain tuple of edges; edges are compared by      *)
(* identity.                                                               *)
(***************************************************************************)
Path(edge_tuple) == [type |-> "Path", edges |-> edge_tuple]
PlainTuple(edge_tuple) == [type |-> "tuple", edges |-> edge_tuple]

\* BasePath.__getitem__ with a slice: a plain tuple, not a path.
Slice(path, n) == PlainTuple(SubSeq(path.edges, 1, n))

\* BasePath.__eq__: equal types and equal edge tuples.
PathEq(path, other) == other.type = path.type /\ path.edges = other.edges

\* `left == right` with a plain tuple on the left: tuple equality with a
\* tuple, and otherwise the reflected BasePath.__eq__ of the right operand.
TupleEq(left, right) ==
    IF right.type = "tuple" THEN left.edges = right.edges ELSE PathEq(right, left)

\* The position in `others` of the candidate max_overlap returns, None if
\* it returns None.
RECURSIVE max_overlap_from(_, _, _)
max_overlap_from(path, others, i) ==
    IF i > Len(others) THEN None
    ELSE IF Len(others[i].edges) > Len(path.edges) THEN max_overlap_from(path, others, i + 1)
    ELSE IF TupleEq(Slice(path, Len(others[i].edges)), others[i]) THEN i
    ELSE max_overlap_from(path, others, i + 1)

max_overlap(path, others) == max_overlap_from(path, others, 1)

OverlapEdges == {1, 2}

\* The edge tuples of the paths the inputs are drawn from: not empty.
OverlapTuples == TuplesOver(OverlapEdges, MaxLength) \ {<<>>}

Candidates == {Path(t) : t \in OverlapTuples} \cup {PlainTuple(t) : t \in OverlapTuples}

InitOverlap ==
    /\ metagraph = EmptyMetaGraph
    /\ metapaths = <<>>
    /\ returned = <<>>
    /\ calls = 0
    /\ graph = EmptyGraph
    /\ edges = <<>>
    /\ path_self \in {Path(t) : t \in OverlapTuples}
    /\ path_others \in TuplesOver(Candidates, MaxOthers)
    /\ result = Outcome("init", <<>>, "ok", <<>>)

MaxOverlap ==
    /\ result.op = "init"
    /\ result' = Outcome("max_overlap", <<>>, "ok", <<max_overlap(path_self, path_others)>>)
    /\ UNCHANGED <<metagraph, metapaths, returned, calls, graph, edges, path_self, path_others>>

NextOverlap == MaxOverlap

SpecOverlap == InitOverlap /\ [][NextOverlap]_vars

(***************************************************************************)
(* Vocabulary of the properties.                                           *)
(***************************************************************************)
Complement(direction) ==
    IF direction = "forward" THEN "backward"
    ELSE IF direction = "backward" THEN "forward" ELSE "both"

\* Each edge's target kind is the next edge's source kind.
Contiguous(mg, edge_tuple) ==
    \A i \in 1..(Len(edge_tuple) - 1) :
        mg.edge_dict[edge_tuple[i]].target = mg.edge_dict[edge_tuple[i + 1]].source

WellFormed(mg, edge_tuple) == Len(edge_tuple) > 0 /\ Contiguous(mg, edge_tuple)

\* The walks of 1..max_length metaedges from source_kind to target_kind.
Walks(mg, source_kind, target_kind, max_length) ==
    {w \in TuplesOver(DOMAIN mg.edge_dict, max_length) :
        /\ Len(w) >= 1
        /\ w[1][1] = source_kind
        /\ \A i \in 1..(Len(w) - 1) : w[i][2] = w[i + 1][1]
        /\ w[Len(w)][2] = target_kind}

\* Edge objects ref and inverse are a pair as add_edge leaves one.
PairedWith(ref, inverse) ==
    /\ inverse \in DOMAIN edges
    /\ edges[ref].inverse = inverse
    /\ edges[inverse].inverse = ref
    /\ edges[inverse].source = edges[ref].target
    /\ edges[inverse].target = edges[ref].source
    /\ edges[inverse].metaedge = metagraph.edge_dict[edges[ref].metaedge].inverse
    /\ ref \in graph.node_dict[edges[ref].source].edges[edges[ref].metaedge]
    /\ inverse \in graph.node_dict[edges[ref].target].edges[edges[inverse].metaedge]

\* What a step that is an add_node call must do.
AddNodeStep ==
    result'.op = "add_node" =>
        LET kind == result'.args[1]
            node_id == <<result'.args[1], result'.args[2]>>
        IN IF kind \notin DOMAIN metagraph.node_dict
           THEN result'.outcome = "KeyError" /\ graph' = graph /\ edges' = edges
           ELSE IF node_id \in DOMAIN graph.node_dict
           THEN result'.outcome = "AssertionError" /\ graph' = graph /\ edges' = edges
           ELSE /\ result'.outcome = "ok"
                /\ DOMAIN graph'.node_dict = DOMAIN graph.node_dict \cup {node_id}
                /\ \A other \in DOMAIN graph.node_dict :
                      graph'.node_dict[other] = graph.node_dict[other]
                /\ graph'.node_dict[node_id].metanode = kind
                /\ graph'.node_dict[node_id].identifier = result'.args[2]
                /\ DOMAIN graph'.node_dict[node_id].edges =
                      {id \in DOMAIN metagraph.edge_dict : id[1] = kind}
                /\ \A id \in DOMAIN graph'.node_dict[node_id].edges :
                      graph'.node_dict[node_id].edges[id] = {}
                /\ graph'.edge_dict = graph.edge_dict
                /\ edges' = edges

\* The paths over the graph's edge objects, of up to MaxLength edges.
Paths == TuplesOver(DOMAIN edges, MaxLength)

SomeElementMasked(path) ==
    \/ \E i \in DOMAIN path :
          edges[path[i]].masked \/ graph.node_dict[edges[path[i]].source].masked
    \/ Len(path) > 0 /\ graph.node_dict[edges[path[Len(path)]].target].masked

PathMaskedIff ==
    \A path \in Paths : (is_masked(graph, edges, path) = "True") <=> SomeElementMasked(path)

\* A step that is mask() or unmask() of an element changes that flag only.
MaskIsLocal ==
    /\ \A node_id \in NodeIds, masked \in BOOLEAN :
          MaskNode(node_id, masked) =>
            /\ edges' = edges
            /\ graph'.edge_dict = graph.edge_dict
            /\ DOMAIN graph'.node_dict = DOMAIN graph.node_dict
            /\ \A other \in DOMAIN graph.node_dict \ {node_id} :
                  graph'.node_dict[other] = graph.node_dict[other]
            /\ graph'.node_dict[node_id].masked = masked
            /\ graph'.node_dict[node_id].edges = graph.node_dict[node_id].edges
    /\ \A ref \in DOMAIN edges, masked \in BOOLEAN :
          MaskEdge(ref, masked) =>
            /\ graph' = graph
            /\ DOMAIN edges' = DOMAIN edges
            /\ \A other \in DOMAIN edges \ {ref} : edges'[other] = edges[other]
            /\ edges'[ref] = [edges[ref] EXCEPT !.masked = masked]

\* The candidate's edges are the first edges of the path.
IsPrefix(candidate, path) ==
    /\ Len(candidate.edges) <= Len(path.edges)
    /\ \A i \in 1..Len(candidate.edges) : candidate.edges[i] = path.edges[i]

(***************************************************************************)
(* C1: two get_metapath calls with equal non-empty edge tuples return the  *)
(* identical object: no tuple has had two different objects returned,      *)
(* whatever get_metapath and extract_metapaths calls came before.          *)
(***************************************************************************)
CacheIdentity ==
    \A t \in DOMAIN returned : Len(t) > 0 => Cardinality(returned[t]) <= 1

(***************************************************************************)
(* C2: every metaedge of edge_dict has an inverse in edge_dict whose own   *)
(* inverse is the metaedge, with source and target swapped, the same kind  *)
(* and the complementary direction (forward<->backward, both<->both); a    *)
(* metaedge from a kind to itself with direction both is its own inverse.  *)
(***************************************************************************)
InverseSymmetry ==
    \A id \in DOMAIN metagraph.edge_dict :
        LET m == metagraph.edge_dict[id]
        IN /\ m.inverse \in DOMAIN metagraph.edge_dict
           /\ LET inverse == metagraph.edge_dict[m.inverse]
              IN /\ inverse.inverse = id
                 /\ inverse.source = m.target
                 /\ inverse.target = m.source
                 /\ inverse.kind = m.kind
                 /\ inverse.direction = Complement(m.direction)
           /\ (m.source = m.target /\ m.direction = "both" => m.inverse = id)
           /\ MetaEdgeGetId(m) = id

\* C2's case: add_edge has declared a metaedge that is its own inverse and a
\* forward one with a separate inverse.
InverseSymmetryWitness ==
    /\ result.op = "meta_add_edge" /\ result.outcome = "ok"
    /\ \E id \in DOMAIN metagraph.edge_dict :
          metagraph.edge_dict[id].inverse = id
    /\ \E id \in DOMAIN metagraph.edge_dict :
          /\ metagraph.edge_dict[id].direction = "forward"
          /\ metagraph.edge_dict[id].inverse # id

(***************************************************************************)
(* C3: extract_metapaths(source_kind, target_kind, max_length) with        *)
(* declared kinds and max_length >= 0 returns the contiguous walks from    *)
(* source_kind to target_kind of length 1..max_length, each exactly once   *)
(* (none for max_length = 0); a negative max_length is rejected.           *)
(***************************************************************************)
ExtractReturnsWalks ==
    result.op = "extract_metapaths"
        /\ result.args[1] \in DOMAIN metagraph.node_dict
        /\ result.args[2] \in DOMAIN metagraph.node_dict
    => IF result.args[3] < 0 THEN result.outcome = "AssertionError"
       ELSE LET walks == Walks(metagraph, result.args[1], result.args[2], result.args[3])
            IN /\ result.outcome = "ok"
               /\ Len(result.value) = Cardinality(walks)
               /\ {metapaths[result.value[i]].edges : i \in DOMAIN result.value} = walks
               /\ (result.args[3] = 0 => result.value = <<>>)

\* C3's case: the enumeration example, compound to gene within two steps.
ExtractReturnsWalksWitness ==
    /\ result.op = "extract_metapaths"
    /\ result.args = <<"compound", "gene", 2>>
    /\ {metapaths[result.value[i]].edges : i \in DOMAIN result.value} =
          { << <<"compound", "gene", "target", "both">> >>,
            << <<"compound", "disease", "indication", "both">>,
               <<"disease", "gene", "association", "both">> >> }

(***************************************************************************)
(* C4: every edge object was created by add_edge in a pair: its inverse is *)
(* set and the inverse's inverse is the edge, the inverse runs from the    *)
(* edge's target to its source with the inverse metaedge, the edge is in   *)
(* its source's set for its metaedge and the inverse in the target's set   *)
(* for the inverse metaedge; add_edge returns such a pair of two objects.  *)
(***************************************************************************)
EdgesArePaired ==
    /\ \A ref \in DOMAIN edges : PairedWith(ref, edges[ref].inverse)
    /\ (result.op = "add_edge" /\ result.outcome = "ok"
          => /\ result.value[1] \in DOMAIN edges
             /\ result.value[1] # result.value[2]
             /\ PairedWith(result.value[1], result.value[2]))

\* C4's case: add_edge was called twice with the same arguments, between two
\* different nodes.
EdgesArePairedWitness ==
    /\ result.op = "add_edge" /\ result.outcome = "ok"
    /\ edges[result.value[1]].source # edges[result.value[1]].target
    /\ \E ref \in DOMAIN edges :
          /\ ref # result.value[1]
          /\ EdgeGetId(metagraph, edges[ref]) = EdgeGetId(metagraph, edges[result.value[1]])

(***************************************************************************)
(* C5: get_edges(exclude_inverts=True) yields exactly one member of each   *)
(* inverse pair created by add_edge, in the metagraph and in the graph,    *)
(* whatever the endpoints of the edge.                                     *)
(***************************************************************************)
ExcludeInvertsYieldsOnePerPair ==
    /\ \A id \in DOMAIN metagraph.edge_dict :
          Cardinality({id, metagraph.edge_dict[id].inverse}
                        \cap MetaGraphGetEdges(metagraph, TRUE)) = 1
    /\ \A ref \in DOMAIN edges :
          Cardinality({ref, edges[ref].inverse} \cap GraphGetEdges(graph, edges, TRUE)) = 1

(***************************************************************************)
(* C6: a path is masked if and only if one of its edges, one of their      *)
(* source nodes or its final target node is masked; mask() and unmask() of *)
(* an element change that element's flag and nothing else.                 *)
(***************************************************************************)
MaskComposition == [](PathMaskedIff) /\ [][MaskIsLocal]_vars

\* C6's case: a path of two unmasked edges with unmasked sources is masked
\* because its final target was masked.
MaskCompositionWitness ==
    /\ result.op = "mask"
    /\ \E path \in Paths :
          /\ Len(path) = 2
          /\ is_masked(graph, edges, path) = "True"
          /\ \A i \in DOMAIN path :
                ~edges[path[i]].masked /\ ~graph.node_dict[edges[path[i]].source].masked

(***************************************************************************)
(* C7: add_node fails with KeyError when the kind is not a kind of the     *)
(* metagraph and with an assertion failure when (kind, identifier) is      *)
(* already a node, leaving node_dict, edge_dict and every adjacency set as *)
(* they were; otherwise it adds exactly the node (kind, identifier), with  *)
(* an empty set for every metaedge anchored at the kind.                   *)
(***************************************************************************)
AddNodeContract == [][AddNodeStep]_vars

\* C7's case: a duplicate add_node was rejected in a graph that has edges.
AddNodeContractWitness ==
    /\ result.op = "add_node" /\ result.outcome = "AssertionError"
    /\ Len(edges) > 0

(***************************************************************************)
(* C8: max_overlap returns the first candidate path, in candidate order,   *)
(* that is no longer than the path and equals its first edges, and None    *)
(* only when no candidate is such a prefix.                                *)
(***************************************************************************)
MaxOverlapReturnsFirstPrefix ==
    (result.op = "max_overlap" /\ \A i \in DOMAIN path_others : path_others[i].type = "Path")
    => LET prefixes == {i \in DOMAIN path_others : IsPrefix(path_others[i], path_self)}
       IN IF prefixes = {} THEN result.value = <<None>>
          ELSE result.value = <<CHOOSE i \in prefixes : \A j \in prefixes : i <= j>>

(***************************************************************************)
(* C9: an empty or non-contiguous edge sequence is rejected, by            *)
(* get_metapath too, so every MetaPath object and every key of the         *)
(* metapath cache is non-empty and contiguous.                             *)
(***************************************************************************)
MalformedPathsRejected ==
    /\ \A t \in DOMAIN metagraph.path_dict : WellFormed(metagraph, t)
    /\ \A ref \in DOMAIN metapaths : WellFormed(metagraph, metapaths[ref].edges)

(***************************************************************************)
(* C10: after Graph.unmask() every node and every edge created by add_edge *)
(* is unmasked, so get_edges with and without exclude_masked agree for     *)
(* every node and metaedge.                                                *)
(***************************************************************************)
UnmaskClearsEverything ==
    result.op = "graph_unmask" =>
        /\ \A node_id \in DOMAIN graph.node_dict : ~graph.node_dict[node_id].masked
        /\ \A ref \in DOMAIN edges : ~edges[ref].masked
        /\ \A node_id \in DOMAIN graph.node_dict :
              \A metaedge \in DOMAIN graph.node_dict[node_id].edges :
                 NodeGetEdges(graph, edges, node_id, metaedge, TRUE)
                    = NodeGetEdges(graph, edges, node_id, metaedge, FALSE)

====
